---- MODULE Spec2Model ----
(***************************************************************************)
(* A model of f4m.py: the FlvReader cursor and its box / bootstrap        *)
(* decoders, build_fragments_list, and the fragment loop of               *)
(* F4MDownloader.download_info_dict with the files it creates.            *)
(*                                                                         *)
(* A byte string is a sequence over 0..255.  A reader is the pair         *)
(* (buffer, cursor); every read_* operator takes both and returns the     *)
(* value read together with the new cursor.  A raised exception           *)
(* (struct.error, IndexError, AssertionError) is a result whose st is not *)
(* "ok".                                                                   *)
(***************************************************************************)
EXTENDS Integers, Sequences, FiniteSets, TLC

VARIABLES
    pc,               \* position of the running operation
    data, pos,        \* FlvReader: the buffer and the cursor (bytes consumed)
    res, reads,       \* read_string: the accumulator, and read(1) calls made
    call, ret,        \* FlvReader: the last method called, and what it returned
    boot_info,        \* the decoded bootstrap handed to build_fragments_list
    fragments_list,   \* what build_fragments_list returned
    metadata,         \* the manifest's metadata blob (run-length form)
    tmp_out,          \* the file at tmpfilename, written through dest_stream
    final_out,        \* the file at filename
    frag_disk,        \* the fragment files on disk: name -> bytes
    frags_filenames,  \* the list download_info_dict removes at the end
    frag_index,       \* number of fragments_list entries the loop has taken
    fetched,          \* history: what each successful _do_download delivered
    requested,        \* history: the fragment names requested, in order
    failed_at,        \* history: index of the fragment whose fetch failed, or 0
    examined,         \* history: boxes the last scan of a fragment read
    result            \* what download_info_dict returned, or how it ended

readerVars  == <<data, pos, res, reads, call, ret>>
plannerVars == <<boot_info, fragments_list>>
sessionVars == <<metadata, tmp_out, final_out, frag_disk, frags_filenames,
                 frag_index, fetched, requested, failed_at, examined, result>>
vars == <<pc, readerVars, plannerVars, sessionVars>>

(***************************************************************************)
(* Bounds of the model.                                                    *)
(***************************************************************************)
MaxBufLen == 3    \* longest of the enumerated raw buffers read_string is run on
MaxSpin   == 2    \* read(1) calls followed after the buffer is exhausted
MaxFrags  == 3    \* largest fragments_per_segment
MaxTables == 2    \* most segment-run / fragment-run tables and entries
MaxNames  == 2    \* most server / quality entries of an encoded bootstrap

(***************************************************************************)
(* Bytes and statements.                                                   *)
(*                                                                         *)
(* Every read returns [st, val, pos]: st is "ok", "raised" (struct.error, *)
(* a failed assert, IndexError) or "hang" (a loop that never ends), val   *)
(* the value and pos the cursor afterwards.  Then(r, F) is "r; F(r)" in a *)
(* Python body: F runs on the value of r only when r returned, otherwise  *)
(* the exception (or the hang) is the outcome of the whole body.          *)
(***************************************************************************)
NUL == 0

Ok(v, p)  == [st |-> "ok", val |-> v, pos |-> p]
Bad(s, p) == [st |-> s, val |-> <<>>, pos |-> p]

Then(r, F(_)) ==
    CHOOSE y \in { IF x.st = "ok" THEN F(x) ELSE Bad(x.st, x.pos) : x \in {r} } : TRUE

\* the concatenation of the first n strings of ss
RECURSIVE FlattenN(_, _)
FlattenN(ss, n) == IF n = 0 THEN <<>> ELSE FlattenN(ss, n - 1) \o ss[n]

Flatten(ss) == FlattenN(ss, Len(ss))

\* unpack('!I' / '!Q' / '!B', bytes)[0]: the big-endian value of the first n bytes.
RECURSIVE unpackN(_, _)
unpackN(bytes, n) == IF n = 0 THEN 0 ELSE unpackN(bytes, n - 1) * 256 + bytes[n]

unpack(bytes) == unpackN(bytes, Len(bytes))

\* io.BytesIO.read(n) at cursor p: at most n bytes, all that remain when n < 0.
read(buf, p, n) ==
    LET avail == Len(buf) - p
        k     == IF n < 0 \/ n > avail THEN avail ELSE n
    IN  Ok(SubSeq(buf, p + 1, p + k), p + k)

\* unpack of exactly w bytes read at the cursor; struct.error when fewer remain.
read_unsigned(buf, p, w) ==
    Then(read(buf, p, w), LAMBDA r :
        IF Len(r.val) = w THEN Ok(unpack(r.val), r.pos) ELSE Bad("raised", r.pos))

read_unsigned_long_long(buf, p) == read_unsigned(buf, p, 8)
read_unsigned_int(buf, p)       == read_unsigned(buf, p, 4)
read_unsigned_char(buf, p)      == read_unsigned(buf, p, 1)

(***************************************************************************)
(* read_string.  One iteration of its loop is read_string_iter; the loop  *)
(* leaves only on a NUL.  At the end of the buffer read(1) returns b'',   *)
(* which is not b'\x00': res and the cursor stay as they are and the loop *)
(* goes round again, for ever ("hang").                                   *)
(***************************************************************************)
read_string_iter(buf, p, acc) ==
    CHOOSE it \in
        { IF char.val = <<NUL>>
          THEN [brk |-> TRUE,  res |-> acc,             pos |-> char.pos]
          ELSE [brk |-> FALSE, res |-> acc \o char.val, pos |-> char.pos] :
          char \in {read(buf, p, 1)} } : TRUE

RECURSIVE read_string_loop(_, _, _)
read_string_loop(buf, p, acc) ==
    CHOOSE r \in
        { IF it.brk THEN Ok(it.res, it.pos)
          ELSE IF it.pos = p /\ it.res = acc THEN [st |-> "hang", val |-> acc, pos |-> p]
          ELSE read_string_loop(buf, it.pos, it.res) :
          it \in {read_string_iter(buf, p, acc)} } : TRUE

read_string(buf, p) == read_string_loop(buf, p, <<>>)

(***************************************************************************)
(* read_box_info: (real_size, box_type, box_data).                        *)
(***************************************************************************)
read_box_info(buf, p) ==
    Then(read_unsigned_int(buf, p), LAMBDA size :
    Then(read(buf, size.pos, 4), LAMBDA box_type :
        IF size.val = 1
        THEN Then(read_unsigned_long_long(buf, box_type.pos), LAMBDA real_size :
             Then(read(buf, real_size.pos, real_size.val - 16), LAMBDA box_data :
                 Ok([size |-> real_size.val, type |-> box_type.val,
                     data |-> box_data.val, header_end |-> 16], box_data.pos)))
        ELSE Then(read(buf, box_type.pos, size.val - 8), LAMBDA box_data :
                 Ok([size |-> size.val, type |-> box_type.val,
                     data |-> box_data.val, header_end |-> 8], box_data.pos))))

(***************************************************************************)
(* The bootstrap decoders.  The body of each decoder is written as the    *)
(* list of its statements, in source order, and run by Run: a statement   *)
(* reads at the cursor and binds its value to its variable in env (the    *)
(* method's local variables); the first statement that does not return    *)
(* ends the method with its exception (or hang).                          *)
(*                                                                         *)
(*   UInt(v, w)        v = self.read_unsigned_char/int/long_long()         *)
(*   Skip(n)           self.read(n)                                        *)
(*   Str(v)            v = self.read_string()                              *)
(*   UIntIfZero(v, c)  v = read_unsigned_char() if c == 0 else None        *)
(*   ChildBox(v, tag)  read_box_info(); assert box_type == tag;            *)
(*                     v = FlvReader(box_data).read_asrt() / read_afrt()   *)
(*   Loop(xs, n, body, item)                                               *)
(*                     xs = []; for i in range(n): body; xs.append(item)   *)
(***************************************************************************)
None == -1

asrt == <<97, 115, 114, 116>>
afrt == <<97, 102, 114, 116>>
abst == <<97, 98, 115, 116>>
mdat == <<109, 100, 97, 116>>

Stmt(op, name, arg, count, body, item) ==
    [op |-> op, name |-> name, arg |-> arg, count |-> count, body |-> body,
     item |-> item]

UInt(name, width)       == Stmt("uint", name, width, "", <<>>, "")
Skip(n)                 == Stmt("skip", "_", n, "", <<>>, "")
Str(name)               == Stmt("cstr", name, 0, "", <<>>, "")
UIntIfZero(name, cond)  == Stmt("uint_if_zero", name, 1, cond, <<>>, "")
ChildBox(name, tag)     == Stmt("box", name, tag, "", <<>>, "")
Loop(name, count, body, item) == Stmt("loop", name, 0, count, body, item)

read_asrt_body ==
    << UInt("version", 1),
       Skip(3),
       UInt("quality_entry_count", 1),
       Loop("quality_modifiers", "quality_entry_count",
            << Str("quality_modifier") >>, "quality_modifier"),
       UInt("segment_run_count", 4),
       Loop("segments", "segment_run_count",
            << UInt("first_segment", 4), UInt("fragments_per_segment", 4) >>,
            "(first_segment, fragments_per_segment)") >>

read_afrt_body ==
    << UInt("version", 1),
       Skip(3),
       UInt("time_scale", 4),
       UInt("quality_entry_count", 1),
       Loop("quality_entries", "quality_entry_count", << Str("mod") >>, "mod"),
       UInt("fragments_count", 4),
       Loop("fragments", "fragments_count",
            << UInt("first", 4), UInt("first_ts", 8), UInt("duration", 4),
               UIntIfZero("discontinuity_indicator", "duration") >>,
            "{first, ts, duration, discontinuity_indicator}") >>

\* The quality loop runs range(server_count), not range(quality_count), and
\* appends server, the last server read, not the quality just read.
read_abst_body ==
    << UInt("version", 1),
       Skip(3),
       UInt("bootstrap_info_version", 4),
       Skip(1),
       UInt("time_scale", 4),
       UInt("current_media_time", 8),
       UInt("smpteTimeCodeOffset", 8),
       Str("movie_identifier"),
       UInt("server_count", 1),
       Loop("servers", "server_count", << Str("server") >>, "server"),
       UInt("quality_count", 1),
       Loop("qualities", "server_count", << Str("quality") >>, "server"),
       Str("drm_data"),
       Str("metadata"),
       UInt("segments_count", 1),
       Loop("segments", "segments_count", << ChildBox("segment", asrt) >>, "segment"),
       UInt("fragments_run_count", 1),
       Loop("fragments", "fragments_run_count", << ChildBox("fragment", afrt) >>,
            "fragment") >>

\* The value a loop appends, from the local variables.
Item(item, env) ==
    CASE item = "(first_segment, fragments_per_segment)" ->
             <<env["first_segment"], env["fragments_per_segment"]>>
      [] item = "{first, ts, duration, discontinuity_indicator}" ->
             [first |-> env["first"], ts |-> env["first_ts"],
              duration |-> env["duration"],
              discontinuity_indicator |-> env["discontinuity_indicator"]]
      [] OTHER -> env[item]

\* The dict each decoder returns, from its local variables.
read_asrt_return(env) ==
    [version |-> env["version"],
     quality_segment_modifiers |-> env["quality_modifiers"],
     segment_run |-> env["segments"]]

read_afrt_return(env) ==
    [version |-> env["version"],
     time_scale |-> env["time_scale"],
     fragments |-> env["fragments"],
     quality_entries |-> env["quality_entries"]]

read_abst_return(env) ==
    [segments |-> env["segments"],
     movie_identifier |-> env["movie_identifier"],
     drm_data |-> env["drm_data"],
     fragments |-> env["fragments"]]

Bind(name, v, env) == (name :> v) @@ env

RECURSIVE Run(_, _, _, _, _)
RECURSIVE RunLoop(_, _, _, _, _, _)
RECURSIVE Exec(_, _, _, _)

\* FlvReader(box_data).read_asrt() / .read_afrt(): a new reader, cursor at 0
read_child(tag, box_data) ==
    CHOOSE y \in
        { IF r.st # "ok" THEN r
          ELSE Ok(IF tag = asrt THEN read_asrt_return(r.val)
                                ELSE read_afrt_return(r.val), r.pos) :
          r \in {Run(box_data, 0, IF tag = asrt THEN read_asrt_body ELSE read_afrt_body,
                     1, <<>>)} } : TRUE

\* One statement at cursor p: [st, val |-> the local variables afterwards, pos].
Exec(buf, p, stmt, env) ==
    CHOOSE y \in
        { IF r.st # "ok" THEN Bad(r.st, r.pos)
          ELSE IF stmt.op = "loop" THEN r
          ELSE Ok(Bind(stmt.name, r.val, env), r.pos) :
          r \in { CASE stmt.op = "uint" -> read_unsigned(buf, p, stmt.arg)
                    [] stmt.op = "skip" -> read(buf, p, stmt.arg)
                    [] stmt.op = "cstr" -> read_string(buf, p)
                    [] stmt.op = "uint_if_zero" ->
                           IF env[stmt.count] = 0 THEN read_unsigned_char(buf, p)
                                                  ELSE Ok(None, p)
                    [] stmt.op = "box" ->
                           Then(read_box_info(buf, p), LAMBDA box :
                               IF box.val.type # stmt.arg THEN Bad("raised", box.pos)
                               ELSE Then(read_child(stmt.arg, box.val.data),
                                         LAMBDA child : Ok(child.val, box.pos)))
                    [] stmt.op = "loop" ->
                           RunLoop(buf, p, stmt, env[stmt.count], env, <<>>) } } : TRUE

\* Statements i.. of body, in order.
Run(buf, p, body, i, env) ==
    IF i > Len(body) THEN Ok(env, p)
    ELSE CHOOSE y \in
             { IF r.st # "ok" THEN r ELSE Run(buf, r.pos, body, i + 1, r.val) :
               r \in {Exec(buf, p, body[i], env)} } : TRUE

\* n more rounds of the loop stmt; xs is the list so far.
RunLoop(buf, p, stmt, n, env, xs) ==
    IF n = 0 THEN Ok(Bind(stmt.name, xs, env), p)
    ELSE CHOOSE y \in
             { IF r.st # "ok" THEN r
               ELSE RunLoop(buf, r.pos, stmt, n - 1, r.val,
                            Append(xs, Item(stmt.item, r.val))) :
               r \in {Run(buf, p, stmt.body, 1, env)} } : TRUE

read_asrt(buf) == read_child(asrt, buf)
read_afrt(buf) == read_child(afrt, buf)

read_abst(buf) ==
    Then(Run(buf, 0, read_abst_body, 1, <<>>), LAMBDA r :
        Ok(read_abst_return(r.val), r.pos))

\* read_bootstrap_info: read_box_info(); assert box_type == b'abst';
\* FlvReader(box_data).read_abst().  The outer cursor stops after the box.
read_bootstrap_info(buf, p) ==
    Then(read_box_info(buf, p), LAMBDA box :
        IF box.val.type # abst THEN Bad("raised", box.pos)
        ELSE Then(read_abst(box.val.data), LAMBDA info : Ok(info.val, box.pos)))

(***************************************************************************)
(* The byte layouts the decoders read, written out: the inputs of the     *)
(* model are built with these.                                            *)
(***************************************************************************)
U8(n)  == <<n % 256>>
U32(n) == <<(n \div 16777216) % 256, (n \div 65536) % 256, (n \div 256) % 256, n % 256>>
U64(n) == <<0, 0, 0, 0>> \o U32(n)
CString(str) == str \o <<NUL>>
CStrings(strs) == Flatten([i \in 1..Len(strs) |-> CString(strs[i])])

Box(tag, payload)    == U32(8 + Len(payload)) \o tag \o payload
BoxExt(tag, payload) == U32(1) \o tag \o U64(16 + Len(payload)) \o payload

EncodeAsrt(t) ==
    U8(t.version) \o <<0, 0, 0>>
    \o U8(Len(t.quality_segment_modifiers)) \o CStrings(t.quality_segment_modifiers)
    \o U32(Len(t.segment_run))
    \o Flatten([i \in 1..Len(t.segment_run) |->
                   U32(t.segment_run[i][1]) \o U32(t.segment_run[i][2])])

EncodeFragmentRun(e) ==
    U32(e.first) \o U64(e.ts) \o U32(e.duration)
    \o (IF e.duration = 0 THEN U8(e.discontinuity_indicator) ELSE <<>>)

EncodeAfrt(t) ==
    U8(t.version) \o <<0, 0, 0>> \o U32(t.time_scale)
    \o U8(Len(t.quality_entries)) \o CStrings(t.quality_entries)
    \o U32(Len(t.fragments))
    \o Flatten([i \in 1..Len(t.fragments) |-> EncodeFragmentRun(t.fragments[i])])

\* b is the decoded bootstrap; servers, qualities and meta are the fields
\* read_abst reads and does not return.
EncodeAbst(b, servers, qualities, meta) ==
    U8(0) \o <<0, 0, 0>> \o U32(1) \o <<0>> \o U32(1000) \o U64(0) \o U64(0)
    \o CString(b.movie_identifier)
    \o U8(Len(servers)) \o CStrings(servers)
    \o U8(Len(qualities)) \o CStrings(qualities)
    \o CString(b.drm_data) \o CString(meta)
    \o U8(Len(b.segments))
    \o Flatten([i \in 1..Len(b.segments) |-> Box(asrt, EncodeAsrt(b.segments[i]))])
    \o U8(Len(b.fragments))
    \o Flatten([i \in 1..Len(b.fragments) |-> Box(afrt, EncodeAfrt(b.fragments[i]))])

(***************************************************************************)
(* Inputs.                                                                 *)
(***************************************************************************)
afra == <<97, 102, 114, 97>>

SegmentTable(n) ==
    [version |-> 0, quality_segment_modifiers |-> <<>>, segment_run |-> <<<<1, n>>>>]

FragmentTable(f) ==
    [version |-> 0, time_scale |-> 1000, quality_entries |-> <<>>,
     fragments |-> <<[first |-> f, ts |-> 0, duration |-> 4,
                      discontinuity_indicator |-> None],
                     [first |-> f + 2, ts |-> 8, duration |-> 0,
                      discontinuity_indicator |-> 1]>>]

\* n distinct two-byte names starting with byte b
Names(b, n) == [i \in 1..n |-> <<b, 48 + i>>]

\* Bootstraps with every pair of server and quality counts, and with
\* 0..MaxTables segment-run and fragment-run tables.
AbstInputs ==
    { [boot |-> [segments |-> [i \in 1..k |-> SegmentTable(2)],
                 movie_identifier |-> <<109>>,
                 drm_data |-> <<100, 114, 109>>,
                 fragments |-> [i \in 1..j |-> FragmentTable(1)]],
       servers |-> Names(115, ns), qualities |-> Names(113, nq),
       meta |-> <<77>>] :
      ns \in 0..MaxNames, nq \in 0..MaxNames,
      k \in 0..MaxTables, j \in 0..MaxTables }

AbstBytes(a) == Box(abst, EncodeAbst(a.boot, a.servers, a.qualities, a.meta))

\* What a fragment download delivers: a run of boxes, whole or damaged.
MediaBox(payload)    == [tag |-> mdat, payload |-> payload, ext |-> FALSE]
MediaBoxExt(payload) == [tag |-> mdat, payload |-> payload, ext |-> TRUE]
OtherBox(payload)    == [tag |-> afra, payload |-> payload, ext |-> FALSE]

Whole(boxes) == [boxes |-> boxes, damage |-> "none"]

\* The number of boxes the specification lets a scan for mdat examine ("e.g. 32").
ScanCap == 32

FragmentSources ==
    { Whole(<<MediaBox(<<1, 2, 3>>)>>),
      Whole(<<MediaBoxExt(<<4, 5>>)>>),
      Whole(<<OtherBox(<<>>), MediaBox(<<6>>)>>),
      Whole(<<OtherBox(<<9>>), MediaBox(<<7, 7>>), MediaBox(<<8>>)>>),
      Whole(<<MediaBox(<<>>)>>),
      Whole(<<OtherBox(<<9, 9>>)>>),
      Whole(<<>>),
      [boxes |-> <<MediaBox(<<1, 2, 3>>)>>, damage |-> "cut"],
      [boxes |-> <<MediaBox(<<1, 2, 3>>)>>, damage |-> "size0"],
      [boxes |-> <<MediaBox(<<1, 2, 3>>), OtherBox(<<>>)>>, damage |-> "size5"],
      [boxes |-> <<MediaBoxExt(<<>>)>>, damage |-> "cut"],
      Whole([i \in 1..ScanCap |-> OtherBox(<<>>)] \o <<MediaBox(<<5, 5>>)>>) }

EncodeBox(b) == IF b.ext THEN BoxExt(b.tag, b.payload) ELSE Box(b.tag, b.payload)

Render(src) ==
    LET whole == Flatten([i \in 1..Len(src.boxes) |-> EncodeBox(src.boxes[i])])
    IN  CASE src.damage = "none"  -> whole
          [] src.damage = "cut"   -> SubSeq(whole, 1, Len(whole) - 2)
          [] src.damage = "size0" -> U32(0) \o SubSeq(whole, 5, Len(whole))
          [] src.damage = "size5" -> U32(5) \o SubSeq(whole, 5, Len(whole))

RawBuffers ==
    UNION { [1..n -> {NUL, 65, 66}] : n \in 0..MaxBufLen }

AbstBuffers == { AbstBytes(a) : a \in AbstInputs }

ReaderBuffers == RawBuffers \cup { Render(src) : src \in FragmentSources }

(***************************************************************************)
(* Idle values of the variables an operation does not use.                 *)
(***************************************************************************)
NoCall == [op |-> "new", from |-> 0]
NoRet  == [st |-> "none", val |-> <<>>]
NoFile == [exists |-> FALSE, content |-> <<>>]
NoFiles == [n \in {} |-> <<>>]
NoBoot == [segments |-> <<>>, movie_identifier |-> <<>>, drm_data |-> <<>>,
           fragments |-> <<>>]
NoPlan == [st |-> "none", val |-> <<>>]

ReaderIdle ==
    /\ data = <<>> /\ pos = 0 /\ res = <<>> /\ reads = 0
    /\ call = NoCall /\ ret = NoRet

PlannerIdle == boot_info = NoBoot /\ fragments_list = NoPlan

SessionIdle ==
    /\ metadata = <<>> /\ tmp_out = NoFile /\ final_out = NoFile
    /\ frag_disk = NoFiles /\ frags_filenames = <<>> /\ frag_index = 0
    /\ fetched = <<>> /\ requested = <<>> /\ failed_at = 0 /\ examined = 0
    /\ result = "running"

(***************************************************************************)
(* FlvReader: an object made on a buffer with the cursor at 0, and the    *)
(* methods called on it.  read_string is followed one loop iteration at   *)
(* a time; the other methods return or raise in one step.                 *)
(***************************************************************************)
InitReader ==
    /\ pc = "idle"
    /\ data \in ReaderBuffers
    /\ pos = 0 /\ res = <<>> /\ reads = 0
    /\ call = NoCall /\ ret = NoRet
    /\ PlannerIdle /\ SessionIdle

CallReadUnsignedChar ==
    /\ pc = "idle"
    /\ \E r \in {read_unsigned_char(data, pos)} :
           /\ pos' = r.pos
           /\ ret' = [st |-> r.st, val |-> r.val]
    /\ call' = [op |-> "read_unsigned_char", from |-> pos]
    /\ UNCHANGED <<pc, data, res, reads>>
    /\ UNCHANGED <<plannerVars, sessionVars>>

CallReadString ==
    /\ pc = "idle"
    /\ pc' = "read_string"
    /\ res' = <<>> /\ reads' = 0
    /\ call' = [op |-> "read_string", from |-> pos]
    /\ ret' = NoRet
    /\ UNCHANGED <<data, pos>>
    /\ UNCHANGED <<plannerVars, sessionVars>>

\* One iteration of the while True loop.
ReadStringIter ==
    /\ pc = "read_string"
    /\ reads < (Len(data) - call.from) + MaxSpin
    /\ \E it \in {read_string_iter(data, pos, res)} :
           /\ pos' = it.pos
           /\ res' = it.res
           /\ pc' = IF it.brk THEN "idle" ELSE "read_string"
           /\ ret' = IF it.brk THEN [st |-> "ok", val |-> it.res] ELSE ret
    /\ reads' = reads + 1
    /\ UNCHANGED <<data, call>>
    /\ UNCHANGED <<plannerVars, sessionVars>>

CallReadBoxInfo ==
    /\ pc = "idle"
    /\ \E box \in {read_box_info(data, pos)} :
           /\ pos' = box.pos
           /\ ret' = [st |-> box.st, val |-> box.val]
    /\ call' = [op |-> "read_box_info", from |-> pos]
    /\ UNCHANGED <<pc, data, res, reads>>
    /\ UNCHANGED <<plannerVars, sessionVars>>

NextReader ==
    \/ CallReadUnsignedChar
    \/ CallReadString
    \/ ReadStringIter
    \/ CallReadBoxInfo

SpecReader == InitReader /\ [][NextReader]_vars

(***************************************************************************)
(* read_bootstrap_info(bootstrap_bytes): a reader made on the bootstrap   *)
(* blob, and the one call made on it.                                      *)
(***************************************************************************)
InitBootstrap ==
    /\ pc = "idle"
    /\ data \in AbstBuffers
    /\ pos = 0 /\ res = <<>> /\ reads = 0
    /\ call = NoCall /\ ret = NoRet
    /\ PlannerIdle /\ SessionIdle

CallReadBootstrapInfo ==
    /\ pc = "idle"
    /\ call = NoCall
    /\ \E info \in {read_bootstrap_info(data, pos)} :
           /\ pos' = info.pos
           /\ ret' = [st |-> info.st, val |-> info.val]
    /\ call' = [op |-> "read_bootstrap_info", from |-> pos]
    /\ UNCHANGED <<pc, data, res, reads>>
    /\ UNCHANGED <<plannerVars, sessionVars>>

NextBootstrap == CallReadBootstrapInfo

SpecBootstrap == InitBootstrap /\ [][NextBootstrap]_vars

(***************************************************************************)
(* Properties of the reader.                                               *)
(***************************************************************************)
NulAt(buf, from) == { i \in from + 1 .. Len(buf) : buf[i] = NUL }

\* The step-by-step read_string and the operator read_string agree: a call
\* that returned gave the operator's value and cursor, and a call the
\* operator says hangs is never seen to return.
ReadStringAgrees ==
    call.op = "read_string" =>
        LET r == read_string(data, call.from)
        IN  IF pc = "idle"
            THEN r.st = "ok" /\ r.val = ret.val /\ r.pos = pos
            ELSE r.st = "hang" \/ pos < r.pos

\* C7: read_string terminates on every buffer and cursor position: with a
\* NUL at or after the cursor it returns the bytes before the first such NUL
\* and leaves the cursor just past it; with none, it stops (fails) at the
\* read that finds the buffer exhausted, so a loop still running has got a
\* byte from every read(1) it made.
C7_ReadStringTerminates ==
    call.op = "read_string" =>
        /\ pc = "idle" =>
               /\ NulAt(data, call.from) # {}
               /\ pos = CHOOSE i \in NulAt(data, call.from) :
                            \A j \in NulAt(data, call.from) : i <= j
               /\ ret.val = SubSeq(data, call.from + 1, pos - 1)
        /\ pc = "read_string" => reads <= Len(data) - call.from

\* C8: every box read_box_info returns has len(payload) = size - header_length,
\* header_length 16 when the 32-bit size field is 1 and 8 otherwise; with
\* fewer bytes left the read fails and returns no box.
C8_BoxPayloadLength ==
    (call.op = "read_box_info" /\ ret.st = "ok") =>
        /\ ret.val.header_end =
               IF unpack(SubSeq(data, call.from + 1, call.from + 4)) = 1
               THEN 16 ELSE 8
        /\ Len(ret.val.data) = ret.val.size - ret.val.header_end

\* A whole box at the cursor is returned as it was written.
BoxRoundTrip ==
    \A tag \in {mdat, afra}, payload \in {<<>>, <<1, 2, 3>>, <<4, 5>>} :
        /\ (data = Box(tag, payload) /\ call.op = "read_box_info" /\ call.from = 0)
               => (ret.st = "ok" /\ ret.val.type = tag /\ ret.val.data = payload
                   /\ ret.val.header_end = 8)
        /\ (data = BoxExt(tag, payload) /\ call.op = "read_box_info" /\ call.from = 0)
               => (ret.st = "ok" /\ ret.val.type = tag /\ ret.val.data = payload
                   /\ ret.val.header_end = 16)

\* C10: read_abst consumes exactly quality_count strings for the quality
\* list, whatever server_count is, so that drm_data, the segment-run tables
\* and the fragment-run tables come out as they were written.
C10_QualityCountConsumed ==
    \A a \in AbstInputs :
        (data = AbstBytes(a) /\ call.op = "read_bootstrap_info")
            => (ret.st = "ok" /\ ret.val = a.boot)

\* With server_count = quality_count the bootstrap decodes to what was written.
AbstRoundTripEqualCounts ==
    \A a \in AbstInputs :
        (data = AbstBytes(a) /\ call.op = "read_bootstrap_info"
         /\ Len(a.servers) = Len(a.qualities))
            => (ret.st = "ok" /\ ret.val = a.boot /\ pos = Len(data))

(***************************************************************************)
(* build_fragments_list.  Indexing an empty list raises IndexError.       *)
(***************************************************************************)
\* segment_run_table = boot_info['segments'][0]
segment_run_table(boot) == boot.segments[1]

\* zip(range(1, n_frags), ...): one fragment short
zip_range_count_short(n_frags, first_frag_number) ==
    [i \in 1..(n_frags - 1) |-> <<1, first_frag_number + (i - 1)>>]

\* for (i, frag_number) in zip(range(1, n_frags+1), itertools.count(first_frag_number)):
\*     res.append((1, frag_number))
zip_range_count(n_frags, first_frag_number) ==
    [i \in 1..n_frags |-> <<1, first_frag_number + (i - 1)>>]

build_fragments_list(boot) ==
    IF boot.segments = <<>> THEN Bad("raised", 0)
    ELSE IF segment_run_table(boot).segment_run = <<>> THEN Bad("raised", 0)
    ELSE IF boot.fragments = <<>> THEN Bad("raised", 0)
    ELSE IF boot.fragments[1].fragments = <<>> THEN Bad("raised", 0)
    ELSE LET segment_run_entry  == segment_run_table(boot).segment_run[1]
             n_frags            == segment_run_entry[2]
             fragment_run_entry_table == boot.fragments[1].fragments
             first_frag_number  == fragment_run_entry_table[1].first
         IN  Ok(zip_range_count(n_frags, first_frag_number), 0)

\* Decoded bootstraps: 0..MaxTables tables of each kind, each table with no,
\* one or two entries.
SeqsUpTo(S, n) == UNION { [1..k -> S] : k \in 0..n }

SegmentRuns ==
    {<<>>} \cup { <<<<1, n>>>> : n \in 0..MaxFrags }
           \cup { <<<<1, n>>, <<2, 1>>>> : n \in 0..MaxFrags }

SegmentTables ==
    { [version |-> 0, quality_segment_modifiers |-> <<>>, segment_run |-> r] :
      r \in SegmentRuns }

FragmentEntry(f) ==
    [first |-> f, ts |-> 0, duration |-> 4, discontinuity_indicator |-> None]

FragmentTables ==
    { [version |-> 0, time_scale |-> 1000, quality_entries |-> <<>>, fragments |-> e] :
      e \in {<<>>, <<FragmentEntry(1)>>, <<FragmentEntry(100), FragmentEntry(7)>>} }

BootInfos ==
    { [segments |-> segs, movie_identifier |-> <<109>>, drm_data |-> <<>>,
       fragments |-> frags] :
      segs \in SeqsUpTo(SegmentTables, MaxTables),
      frags \in SeqsUpTo(FragmentTables, MaxTables) }

InitPlanner ==
    /\ pc = "plan"
    /\ boot_info \in BootInfos
    /\ fragments_list = NoPlan
    /\ ReaderIdle /\ SessionIdle

BuildFragmentsList ==
    /\ pc = "plan"
    /\ \E r \in {build_fragments_list(boot_info)} :
           fragments_list' = [st |-> r.st, val |-> r.val]
    /\ pc' = "planned"
    /\ UNCHANGED <<boot_info, readerVars, sessionVars>>

NextPlanner == BuildFragmentsList

SpecPlanner == InitPlanner /\ [][NextPlanner]_vars

\* the bootstrap has exactly one table of each kind, each with a first entry
SingleTables ==
    /\ Len(boot_info.segments) = 1 /\ Len(boot_info.fragments) = 1
    /\ boot_info.segments[1].segment_run # <<>>
    /\ boot_info.fragments[1].fragments # <<>>

\* C5: with one segment-run table whose first entry has fragments_per_segment
\* N and one fragment-run table whose first entry has first_fragment F, the
\* list has N elements, every segment number is 1, the first fragment
\* number is F and each next one is the previous plus 1 (empty when N = 0).
C5_FragmentSequence ==
    (pc = "planned" /\ SingleTables) =>
        LET N   == boot_info.segments[1].segment_run[1][2]
            F   == boot_info.fragments[1].fragments[1].first
            seq == fragments_list.val
        IN  /\ fragments_list.st = "ok"
            /\ Len(seq) = N
            /\ \A i \in 1..Len(seq) : seq[i][1] = 1
            /\ Len(seq) > 0 => seq[1][2] = F
            /\ \A i \in 1..(Len(seq) - 1) : seq[i + 1][2] = seq[i][2] + 1

C5_Witness ==
    /\ pc = "planned" /\ SingleTables
    /\ boot_info.segments[1].segment_run[1][2] = MaxFrags
    /\ boot_info.fragments[1].fragments[1].first = 100
    /\ Len(fragments_list.val) = MaxFrags

MultiTable == Len(boot_info.segments) > 1 \/ Len(boot_info.fragments) > 1

\* C6 as stated: build_fragments_list fails, returning no sequence, when
\* segments, segment_run or fragment_runs is empty, and also when there is
\* more than one segment-run or fragment-run table.
C6_MultiTableRejected ==
    (pc = "planned"
     /\ (\/ boot_info.segments = <<>>
         \/ boot_info.segments # <<>> /\ boot_info.segments[1].segment_run = <<>>
         \/ boot_info.fragments = <<>>
         \/ MultiTable))
        => fragments_list.st = "raised"

(***************************************************************************)
(* Files.  The content of the output file is kept in run-length form, a   *)
(* sequence of <<byte, count>> with no two neighbouring runs of the same  *)
(* byte, so that a metadata blob of 2^24 bytes and more has a value.      *)
(* stream.write(bytes) is RWrite.                                          *)
(***************************************************************************)
RPush(runs, b, n) ==
    IF n = 0 THEN runs
    ELSE IF runs # <<>> /\ runs[Len(runs)][1] = b
         THEN [runs EXCEPT ![Len(runs)] = <<b, @[2] + n>>]
         ELSE Append(runs, <<b, n>>)

RECURSIVE RWriteN(_, _, _)
RWriteN(runs, bytes, n) ==
    IF n = 0 THEN runs ELSE RPush(RWriteN(runs, bytes, n - 1), bytes[n], 1)

RWrite(runs, bytes) == RWriteN(runs, bytes, Len(bytes))

RECURSIVE RWriteRunsN(_, _, _)
RWriteRunsN(runs, more, n) ==
    IF n = 0 THEN runs
    ELSE RPush(RWriteRunsN(runs, more, n - 1), more[n][1], more[n][2])

RWriteRuns(runs, more) == RWriteRunsN(runs, more, Len(more))

RECURSIVE RLenN(_, _)
RLenN(runs, n) == IF n = 0 THEN 0 ELSE RLenN(runs, n - 1) + runs[n][2]

\* len(bytes)
RLen(runs) == RLenN(runs, Len(runs))

\* the byte at offset off (from 0)
RECURSIVE RByteAtN(_, _, _)
RByteAtN(runs, off, i) ==
    IF off < runs[i][2] THEN runs[i][1] ELSE RByteAtN(runs, off - runs[i][2], i + 1)

RByteAt(runs, off) == RByteAtN(runs, off, 1)

(***************************************************************************)
(* _write_flv_header.                                                      *)
(***************************************************************************)
\* pack('!L', n): four bytes, big-endian
pack_L(n) == U32(n)

\* pack('!L', len(metadata)) written whole, without the [1:]
write_flv_header_4byte_size(stream, meta) ==
    RWrite(RWriteRuns(RWrite(stream,
        <<70, 76, 86, 1>> \o <<5>> \o <<0, 0, 0, 9>> \o <<0, 0, 0, 0>>
        \o <<18>> \o pack_L(RLen(meta)) \o <<0, 0, 0, 0, 0, 0, 0>>),
        meta), <<0, 0, 1, 115>>)

_write_flv_header(stream, meta) ==
    RWrite(RWriteRuns(RWrite(stream,
        <<70, 76, 86, 1>>                     \* b'FLV\x01'
        \o <<5>>                              \* b'\x05'
        \o <<0, 0, 0, 9>>                     \* b'\x00\x00\x00\x09'
        \o <<0, 0, 0, 0>>                     \* b'\x00\x00\x00\x00'
        \o <<18>>                             \* b'\x12'
        \o Tail(pack_L(RLen(meta)))           \* pack('!L',len(metadata))[1:]
        \o <<0, 0, 0, 0, 0, 0, 0>>),          \* seven zero bytes
        meta),                                \* metadata
        <<0, 0, 1, 115>>)                     \* b'\x00\x00\x01\x73'

(***************************************************************************)
(* The scan of a downloaded fragment for its mdat box (the while True     *)
(* loop of download_info_dict): the box whose data is written, and the    *)
(* number of boxes read.                                                   *)
(***************************************************************************)
RECURSIVE find_mdat(_, _, _)
find_mdat(down_data, p, n) ==
    CHOOSE y \in
        { IF box.st # "ok" THEN [st |-> box.st, val |-> <<>>, pos |-> box.pos,
                                 examined |-> n + 1]
          ELSE IF box.val.type = mdat
               THEN [st |-> "ok", val |-> box.val.data, pos |-> box.pos,
                     examined |-> n + 1]
               ELSE find_mdat(down_data, box.pos, n + 1) :
          box \in {read_box_info(down_data, p)} } : TRUE

(***************************************************************************)
(* download_info_dict, from the decoded bootstrap on.                      *)
(***************************************************************************)
\* name = u'Seg%d-Frag%d' % (seg_i, frag_i)
FragName(frag) == <<"Seg", frag[1], "-Frag", frag[2]>>

\* frag_filename = u'%s-%s' % (tmpfilename, name)
FragFilename(frag) == <<"tmpfilename", "-">> \o FragName(frag)

TagSizeLimit == 16777216

Metadatas ==
    { <<>>,
      RWrite(<<>>, <<77>>),
      RWrite(<<>>, <<77, 69, 84, 65>>),
      RPush(<<>>, 0, TagSizeLimit),
      RPush(RWrite(<<>>, <<77>>), 0, TagSizeLimit) }

SessionBootInfos ==
    { [segments |-> <<[version |-> 0, quality_segment_modifiers |-> <<>>,
                       segment_run |-> <<<<1, n>>>>]>>,
       movie_identifier |-> <<109>>, drm_data |-> <<>>,
       fragments |-> <<[version |-> 0, time_scale |-> 1000, quality_entries |-> <<>>,
                        fragments |-> <<FragmentEntry(f)>>]>>] :
      n \in 0..MaxFrags, f \in {1, 100} }
    \cup {NoBoot}

InitSession ==
    /\ pc = "start"
    /\ boot_info \in SessionBootInfos
    /\ metadata \in Metadatas
    /\ fragments_list = NoPlan
    /\ tmp_out = NoFile /\ final_out = NoFile /\ frag_disk = NoFiles
    /\ frags_filenames = <<>> /\ frag_index = 0
    /\ fetched = <<>> /\ requested = <<>> /\ failed_at = 0 /\ examined = 0
    /\ result = "running"
    /\ ReaderIdle

\* fragments_list = build_fragments_list(boot_info) raises
StartRaises ==
    /\ pc = "start"
    /\ build_fragments_list(boot_info).st # "ok"
    /\ pc' = "raised"
    /\ result' = "exception"
    /\ UNCHANGED <<readerVars, plannerVars, metadata, tmp_out, final_out, frag_disk,
                   frags_filenames, frag_index, fetched, requested, failed_at,
                   examined>>

\* fragments_list = build_fragments_list(boot_info);
\* (dest_stream, tmpfilename) = sanitize_open(tmpfilename, 'wb');
\* self._write_flv_header(dest_stream, metadata); frags_filenames = []
Start ==
    /\ pc = "start"
    /\ \E plan \in {build_fragments_list(boot_info)} :
           /\ plan.st = "ok"
           /\ fragments_list' = [st |-> "ok", val |-> plan.val]
    /\ tmp_out' = [exists |-> TRUE, content |-> _write_flv_header(<<>>, metadata)]
    /\ pc' = "loop"
    /\ UNCHANGED <<readerVars, boot_info, metadata, final_out, frag_disk,
                   frags_filenames, frag_index, fetched, requested, failed_at,
                   examined, result>>

\* the fragment the loop is at
CurrentFrag == fragments_list.val[frag_index + 1]

\* success = dl._do_download(...) is False, and the loop goes on to the next
\* fragment instead of returning
FetchFailsAndContinues ==
    /\ pc = "loop"
    /\ frag_index < Len(fragments_list.val)
    /\ requested' = Append(requested, FragName(CurrentFrag))
    /\ failed_at' = frag_index + 1
    /\ frag_index' = frag_index + 1
    /\ UNCHANGED <<pc, readerVars, plannerVars, metadata, tmp_out, final_out,
                   frag_disk, frags_filenames, fetched, examined, result>>

\* success = dl._do_download(frag_filename, {'url': url}) is False:
\* if not success: return False
FetchFails ==
    /\ pc = "loop"
    /\ frag_index < Len(fragments_list.val)
    /\ requested' = Append(requested, FragName(CurrentFrag))
    /\ failed_at' = frag_index + 1
    /\ result' = "False"
    /\ pc' = "done"
    /\ UNCHANGED <<readerVars, plannerVars, metadata, tmp_out, final_out, frag_disk,
                   frags_filenames, frag_index, fetched, examined>>

\* success = dl._do_download(frag_filename, {'url': url}) is True: the
\* fragment file holds what the server sent
Fetch ==
    /\ pc = "loop"
    /\ frag_index < Len(fragments_list.val)
    /\ \E src \in FragmentSources :
           /\ frag_disk' = (FragFilename(CurrentFrag) :> Render(src)) @@ frag_disk
           /\ fetched' = Append(fetched, src)
    /\ requested' = Append(requested, FragName(CurrentFrag))
    /\ pc' = "fetched"
    /\ UNCHANGED <<readerVars, plannerVars, metadata, tmp_out, final_out,
                   frags_filenames, frag_index, failed_at, examined, result>>

\* with open(frag_filename, 'rb') as down: ... the scan finds mdat:
\* dest_stream.write(box_data); frags_filenames.append(frag_filename)
ExtractAppends ==
    /\ pc = "fetched"
    /\ \E r \in {find_mdat(frag_disk[FragFilename(CurrentFrag)], 0, 0)} :
           /\ r.st = "ok"
           /\ tmp_out' = [tmp_out EXCEPT !.content = RWrite(@, r.val)]
           /\ examined' = r.examined
    /\ frags_filenames' = Append(frags_filenames, FragFilename(CurrentFrag))
    /\ frag_index' = frag_index + 1
    /\ pc' = "loop"
    /\ UNCHANGED <<readerVars, plannerVars, metadata, final_out, frag_disk,
                   fetched, requested, failed_at, result>>

\* ... read_box_info raises struct.error before an mdat box is found
ExtractRaises ==
    /\ pc = "fetched"
    /\ \E r \in {find_mdat(frag_disk[FragFilename(CurrentFrag)], 0, 0)} :
           /\ r.st # "ok"
           /\ examined' = r.examined
    /\ pc' = "raised"
    /\ result' = "exception"
    /\ UNCHANGED <<readerVars, plannerVars, metadata, tmp_out, final_out, frag_disk,
                   frags_filenames, frag_index, fetched, requested, failed_at>>

\* the loop is over: self.try_rename(tmpfilename, filename);
\* for frag_file in frags_filenames: os.remove(frag_file); the method ends
\* (returns None)
Finish ==
    /\ pc = "loop"
    /\ frag_index = Len(fragments_list.val)
    /\ final_out' = tmp_out
    /\ tmp_out' = NoFile
    /\ frag_disk' = [n \in DOMAIN frag_disk \ {frags_filenames[i] :
                                               i \in 1..Len(frags_filenames)}
                     |-> frag_disk[n]]
    /\ result' = "None"
    /\ pc' = "done"
    /\ UNCHANGED <<readerVars, plannerVars, metadata, frags_filenames, frag_index,
                   fetched, requested, failed_at, examined>>

Next ==
    \/ StartRaises
    \/ Start
    \/ FetchFails
    \/ Fetch
    \/ ExtractAppends
    \/ ExtractRaises
    \/ Finish

Spec == InitSession /\ [][Next]_vars

(***************************************************************************)
(* Properties of the download session.                                     *)
(***************************************************************************)
Ended == pc \in {"done", "raised"}

Succeeded == pc = "done" /\ result = "None"

\* C1: if the fetch of the k-th fragment fails, the session ends returning
\* failure (False) and there is no file at the final destination: the
\* rename of the temp output is not performed.
C1_FetchFailureAborts ==
    failed_at # 0 =>
        /\ pc = "done"
        /\ result = "False"
        /\ ~final_out.exists
        /\ Len(requested) = failed_at

\* the second of three fragment fetches has failed
C1_Witness ==
    /\ failed_at = 2
    /\ fragments_list.st = "ok" /\ Len(fragments_list.val) = 3
    /\ Len(frags_filenames) = 1
    /\ Ended

\* C2: at the end of every session, success or abort, no fragment file
\* written by a fetch remains on disk.
C2_NoFragmentFilesRemain ==
    Ended => DOMAIN frag_disk = {}

\* C3: after a session that ends in failure the temp output file no longer
\* exists.
C3_TempOutputRemoved ==
    (Ended /\ result # "None") => ~tmp_out.exists

\* a fragment made of whole boxes, one of them an mdat box
HasMedia(src) ==
    /\ src.damage = "none"
    /\ \E i \in 1..Len(src.boxes) : src.boxes[i].tag = mdat

\* the payload of its first mdat box, as the server framed it
FirstMediaPayload(src) ==
    src.boxes[CHOOSE i \in 1..Len(src.boxes) :
                  /\ src.boxes[i].tag = mdat
                  /\ \A j \in 1..(i - 1) : src.boxes[j].tag # mdat].payload

AllHaveMedia(srcs) == \A i \in 1..Len(srcs) : HasMedia(srcs[i])

Payloads(srcs, n) == Flatten([i \in 1..n |-> FirstMediaPayload(srcs[i])])

\* the 3-byte big-endian field at offset 14 of the output
LengthField(content) ==
    RByteAt(content, 14) * 65536 + RByteAt(content, 15) * 256 + RByteAt(content, 16)

\* the 14 bytes before the length field, the field, the 7 bytes after it,
\* the metadata, the trailer, and then the payloads
ExpectedOutput(field, meta, payloads) ==
    RWrite(RWriteRuns(RWrite(<<>>,
        <<70, 76, 86, 1, 5, 0, 0, 0, 9, 0, 0, 0, 0, 18>>
        \o <<(field \div 65536) % 256, (field \div 256) % 256, field % 256>>
        \o <<0, 0, 0, 0, 0, 0, 0>>), meta),
        <<0, 0, 1, 115>> \o payloads)

\* fragments are requested in planner order, and one is requested only when
\* the payload of every fragment requested before it has been appended
SequentialFetch ==
    /\ \A i \in 1..Len(requested) : requested[i] = FragName(fragments_list.val[i])
    /\ Len(frags_filenames) = frag_index
    /\ Len(requested) \in {frag_index, frag_index + 1}
    /\ Len(requested) = frag_index + 1 => (pc = "fetched" \/ Ended)

C9_ScanCapped ==
    examined <= ScanCap

====
